---- MODULE Spec2Model ----
(***************************************************************************)
(* The ELF symbol-table iterator (libs/elf_parser/src/symtab.rs) and the   *)
(* fixed-layout record decoder it is built on (libs/stpack/src/lib.rs).    *)
(*                                                                         *)
(* Numbers.  TLC integers are 32 bits wide, so a 64-bit quantity is kept   *)
(* as a record [hi, lo] of its two 32-bit halves (value = hi * 2^32 + lo)  *)
(* and content bytes are drawn from 0 .. 127, which keeps every 32-bit     *)
(* half below 2^31.  Section and entry indices are 0-based as in the code; *)
(* TLA+ sequences are 1-based, so sections[secidx + 1] is the code's       *)
(* self.sections[secidx].                                                  *)
(***************************************************************************)
EXTENDS Integers, Sequences, FiniteSets, TLC

VARIABLES
    class,          \* SymtabIterator.class: "Elf32" or "Elf64"
    le,             \* SymtabIterator.le
    w,              \* width of usize on the build target, in bits
    sections,       \* SymtabIterator.sections (read only)
    curr_secidx,    \* SymtabIterator.curr_secidx
    curr_symidx,    \* SymtabIterator.curr_symidx
    last,           \* what the latest next() call returned, or NoCall
    yielded,        \* history: the Ok results returned so far, in order
    udata,          \* decoder run: the input bytes
    ubody,          \* decoder run: the declared field list
    ures,           \* decoder run: the result, or NotRun
    ufields,        \* round trip: the field values that were encoded
    it2             \* a second SymtabIterator over the same sections: its
                    \* curr_secidx, curr_symidx, last and yielded

vars == <<class, le, w, sections, curr_secidx, curr_symidx, last, yielded,
          udata, ubody, ures, ufields, it2>>

iterVars == <<class, le, w, sections, curr_secidx, curr_symidx, last, yielded, it2>>
unpackVars == <<udata, ubody, ures, ufields>>

(***************************************************************************)
(* Bounds of the model.                                                    *)
(***************************************************************************)
MaxSections == 3        \* longest section list
MaxSymtabs == 2         \* most symbol-table sections in one list
MaxData == 26           \* longest input of a decoder run
MaxShared == 2          \* longest section list two iterators share

(***************************************************************************)
(* stpack: the unpacker! macro.  A struct body is the sequence of its      *)
(* fields, each <<name, size_of(type)>>.                                   *)
(***************************************************************************)
Elf32SymtabEntry ==
    << <<"name", 4>>, <<"value", 4>>, <<"size", 4>>,
       <<"info", 1>>, <<"other", 1>>, <<"shndx", 2>> >>

Elf64SymtabEntry ==
    << <<"name", 4>>, <<"info", 1>>, <<"other", 1>>,
       <<"shndx", 2>>, <<"value", 8>>, <<"size", 8>> >>

Foo == << <<"foo", 1>>, <<"bar", 2>>, <<"baz", 4>> >>

\* {@allsize ...}: size_of of the first field plus @allsize of the rest.
RECURSIVE allsize(_)
allsize(body) ==
    IF body = << >> THEN 0
    ELSE Head(body)[2] + allsize(Tail(body))

\* const SIZE: usize = unpacker!{@allsize $($body)*}
SIZE(body) == allsize(body)

\* The value of the base-256 numeral b, least significant digit first.
RECURSIVE LeValue(_)
LeValue(b) ==
    IF b = << >> THEN 0 ELSE Head(b) + 256 * LeValue(Tail(b))

Reverse(b) == [k \in 1..Len(b) |-> b[Len(b) + 1 - k]]

\* <uN>::from_le_bytes; a u64 is returned as its two 32-bit halves.
from_le_bytes(b) ==
    IF Len(b) = 8
    THEN [hi |-> LeValue(SubSeq(b, 5, 8)), lo |-> LeValue(SubSeq(b, 1, 4))]
    ELSE LeValue(b)

\* from_be_bytes reading its bytes least significant first.
from_be_bytes_unreversed(b) == from_le_bytes(b)

\* <uN>::from_be_bytes
from_be_bytes(b) == from_le_bytes(Reverse(b))

\* {@constructor_from <le|be> $ftyp}
constructor_from(lebe, b) ==
    IF lebe = "le" THEN from_le_bytes(b) ELSE from_be_bytes(b)

\* constructor_one with the start of the field rounded down to a multiple of
\* its width (natural alignment).
constructor_one_aligned(lebe, data, fsize, p) ==
    constructor_from(lebe, SubSeq(data, allsize(p) - (allsize(p) % fsize) + 1,
                                  allsize(p) - (allsize(p) % fsize) + fsize))

\* {@constructor_one <$lebe> $data, $ftyp { $($p)* }}: the field is read
\* from data[allsize(p) .. allsize(p) + size_of(ftyp)], p the fields
\* declared before it.
constructor_one(lebe, data, fsize, p) ==
    constructor_from(lebe, SubSeq(data, allsize(p) + 1, allsize(p) + fsize))

\* {@constructor <$lebe> $data {}, {}, { $($body)* }}: Self { f: ..., }
constructor(lebe, data, body) ==
    [f \in {body[k][1] : k \in DOMAIN body} |->
        LET k == CHOOSE j \in DOMAIN body : body[j][1] = f
        IN  constructor_one(lebe, data, body[k][2], SubSeq(body, 1, k - 1))]

UnpackErr == [ok |-> FALSE]

\* F(v), with v evaluated once.
Bind(v, F(_)) == CHOOSE y \in {F(x) : x \in {v}} : TRUE

\* data.split_at(Self::SIZE)
split_at(data, mid) ==
    <<SubSeq(data, 1, mid), SubSeq(data, mid + 1, Len(data))>>

\* unpack_le with `<=` for `<` in its length check.
unpack_le_strict(data, body) ==
    IF Len(data) <= SIZE(body)
    THEN UnpackErr
    ELSE LET parts == split_at(data, SIZE(body))
         IN  [ok |-> TRUE,
              rec |-> constructor("le", parts[1], body),
              rest |-> parts[2]]

\* fn unpack_le(data: &[u8]) -> Result<(Self, &[u8]), ()>
unpack_le(data, body) ==
    IF Len(data) < SIZE(body)
    THEN UnpackErr
    ELSE LET parts == split_at(data, SIZE(body))
         IN  [ok |-> TRUE,
              rec |-> constructor("le", parts[1], body),
              rest |-> parts[2]]

\* fn unpack_be(data: &[u8]) -> Result<(Self, &[u8]), ()>
unpack_be(data, body) ==
    IF Len(data) < SIZE(body)
    THEN UnpackErr
    ELSE LET parts == split_at(data, SIZE(body))
         IN  [ok |-> TRUE,
              rec |-> constructor("be", parts[1], body),
              rest |-> parts[2]]

\* Unpacker::unpack(data, le)
unpack(data, isLe, body) ==
    IF isLe THEN unpack_le(data, body) ELSE unpack_be(data, body)

(***************************************************************************)
(* elf_parser: the symbol-table iterator.                                  *)
(***************************************************************************)
SHT_SYMTAB == 2
SHT_STRTAB == 3

\* The four errors next() builds, told apart by their message (all carry
\* Errno::EINVAL); Panic is a call that does not return.
InvalidEntrySize == "Symtab section entry size is 0 (file broken)"
MalformedEntry == "Failed to parse symtab entry"
InvalidLinkIndex == "Symtab refer invalid strtab section index"
LinkNotStringTable == "Symtab linked section is not SHT_STRTAB"
Errors == {InvalidEntrySize, MalformedEntry, InvalidLinkIndex, LinkNotStringTable}

\* A u64 of the code, as its two 32-bit halves.
U64(h, l) == [hi |-> h, lo |-> l]

\* `x as usize` for a u64 x: x mod 2^w.
as_usize(x) == IF w = 32 THEN U64(0, x.lo) ELSE x

\* `x as u64` for a u32 x.
as_u64(x) == U64(0, x)

\* content.len() / d for a nonzero d; content.len() is below 2^31.
len_div(n, d) == IF d.hi > 0 THEN 0 ELSE n \div d.lo

\* d * i in usize; the model's operands keep each half free of carries.
usize_mul(d, i) == U64(d.hi * i, d.lo * i)

\* string_table::read_str_from_offset(buf, off): the string found in buf at
\* off, kept uninterpreted.
read_str_from_offset(buf, off) == [buf |-> buf, off |-> off]

EntryLayout == IF class = "Elf32" THEN Elf32SymtabEntry ELSE Elf64SymtabEntry

\* scan without the entsize == 0 check of lines 76-79.
RECURSIVE scan_unchecked(_, _, _)
scan_unchecked(secidx, symidx, scanned) ==
    IF secidx >= Len(sections)
    THEN [out |-> "break", secidx |-> secidx, symidx |-> symidx, scanned |-> scanned]
    ELSE LET sec == sections[secidx + 1]
             seen == Append(scanned, secidx)
         IN  IF sec.typ = SHT_SYMTAB
             THEN IF as_usize(sec.entsize) = U64(0, 0)
                  THEN [out |-> "panic", secidx |-> secidx, symidx |-> symidx,
                        scanned |-> seen]
                  ELSE IF symidx < len_div(Len(sec.content), as_usize(sec.entsize))
                  THEN [out |-> "break", secidx |-> secidx, symidx |-> symidx,
                        scanned |-> seen]
                  ELSE scan_unchecked(secidx + 1, 0, seen)
             ELSE scan_unchecked(secidx + 1, 0, seen)

\* The loop of next(): where the scan that starts at (secidx, symidx)
\* leaves the loop.  out is "break" (lines 70-72, 81-83), "entsize0" (the
\* return of lines 76-79) or "panic" (the division of line 81 by zero);
\* scanned lists the section indices the loop has looked at.
RECURSIVE scan(_, _, _)
scan(secidx, symidx, scanned) ==
    IF secidx >= Len(sections)
    THEN [out |-> "break", secidx |-> secidx, symidx |-> symidx, scanned |-> scanned]
    ELSE LET sec == sections[secidx + 1]
             seen == Append(scanned, secidx)
         IN  IF sec.typ = SHT_SYMTAB
             THEN IF sec.entsize = U64(0, 0)
                  THEN [out |-> "entsize0", secidx |-> secidx, symidx |-> symidx,
                        scanned |-> seen]
                  ELSE IF as_usize(sec.entsize) = U64(0, 0)
                  THEN [out |-> "panic", secidx |-> secidx, symidx |-> symidx,
                        scanned |-> seen]
                  ELSE IF symidx < len_div(Len(sec.content), as_usize(sec.entsize))
                  THEN [out |-> "break", secidx |-> secidx, symidx |-> symidx,
                        scanned |-> seen]
                  ELSE scan(secidx + 1, 0, seen)
             ELSE scan(secidx + 1, 0, seen)

\* What a call returns, with the place (sec, idx) where its scan stopped.
Result(kind, sc, sym) ==
    [kind |-> kind, sec |-> sc.secidx, idx |-> sc.symidx,
     scanned |-> sc.scanned, sym |-> sym]

NoSymbol == [name |-> "-"]

NoCall == [kind |-> "NoCall", sec |-> 0, idx |-> 0, scanned |-> << >>, sym |-> NoSymbol]

\* decode_entry with value and size of the 32-bit entry taken in the order
\* of the 64-bit layout's tuple (size, value).
decode_entry_swapped(data) ==
    IF class = "Elf32"
    THEN Bind(unpack(data, le, Elf32SymtabEntry), LAMBDA r :
             IF r.ok
             THEN [ok |-> TRUE, nameoff |-> r.rec["name"],
                   value |-> as_u64(r.rec["size"]), size |-> as_u64(r.rec["value"]),
                   info |-> r.rec["info"], other |-> r.rec["other"],
                   shndx |-> r.rec["shndx"]]
             ELSE [ok |-> FALSE])
    ELSE Bind(unpack(data, le, Elf64SymtabEntry), LAMBDA r :
             IF r.ok
             THEN [ok |-> TRUE, nameoff |-> r.rec["name"],
                   value |-> r.rec["value"], size |-> r.rec["size"],
                   info |-> r.rec["info"], other |-> r.rec["other"],
                   shndx |-> r.rec["shndx"]]
             ELSE [ok |-> FALSE])

\* Lines 100-127: the entry decoded from data, as the tuple
\* (nameoff, value, size, info, other, shndx), or ok = FALSE.
decode_entry(data) ==
    IF class = "Elf32"
    THEN Bind(unpack(data, le, Elf32SymtabEntry), LAMBDA r :
             IF r.ok
             THEN [ok |-> TRUE, nameoff |-> r.rec["name"],
                   value |-> as_u64(r.rec["value"]), size |-> as_u64(r.rec["size"]),
                   info |-> r.rec["info"], other |-> r.rec["other"],
                   shndx |-> r.rec["shndx"]]
             ELSE [ok |-> FALSE])
    ELSE Bind(unpack(data, le, Elf64SymtabEntry), LAMBDA r :
             IF r.ok
             THEN [ok |-> TRUE, nameoff |-> r.rec["name"],
                   value |-> r.rec["value"], size |-> r.rec["size"],
                   info |-> r.rec["info"], other |-> r.rec["other"],
                   shndx |-> r.rec["shndx"]]
             ELSE [ok |-> FALSE])

\* resolve without the SHT_STRTAB check of lines 138-142.
resolve_any_type(sc, ent) ==
    LET sec == sections[sc.secidx + 1]
    IN  IF sec.link >= Len(sections)
        THEN [res |-> Result(InvalidLinkIndex, sc, NoSymbol),
              secidx |-> sc.secidx, symidx |-> sc.symidx]
        ELSE LET strtab_sec == sections[sec.link + 1]
             IN  [res |-> Result("Ok", sc,
                             [name |-> read_str_from_offset(strtab_sec.content,
                                                            ent.nameoff),
                              value |-> ent.value, size |-> ent.size,
                              info |-> ent.info, other |-> ent.other,
                              shndx |-> ent.shndx]),
                  secidx |-> sc.secidx, symidx |-> sc.symidx + 1]

\* resolve with the cursor moved past an entry whose link check fails.
resolve_skipping(sc, ent) ==
    LET sec == sections[sc.secidx + 1]
    IN  IF sec.link >= Len(sections)
        THEN [res |-> Result(InvalidLinkIndex, sc, NoSymbol),
              secidx |-> sc.secidx, symidx |-> sc.symidx + 1]
        ELSE LET strtab_sec == sections[sec.link + 1]
             IN  IF strtab_sec.typ # SHT_STRTAB
                 THEN [res |-> Result(LinkNotStringTable, sc, NoSymbol),
                       secidx |-> sc.secidx, symidx |-> sc.symidx + 1]
                 ELSE [res |-> Result("Ok", sc,
                                  [name |-> read_str_from_offset(strtab_sec.content,
                                                                 ent.nameoff),
                                   value |-> ent.value, size |-> ent.size,
                                   info |-> ent.info, other |-> ent.other,
                                   shndx |-> ent.shndx]),
                       secidx |-> sc.secidx, symidx |-> sc.symidx + 1]

\* resolve without the `self.curr_symidx = symidx + 1` of line 147.
resolve_unadvanced(sc, ent) ==
    LET sec == sections[sc.secidx + 1]
    IN  IF sec.link >= Len(sections)
        THEN [res |-> Result(InvalidLinkIndex, sc, NoSymbol),
              secidx |-> sc.secidx, symidx |-> sc.symidx]
        ELSE LET strtab_sec == sections[sec.link + 1]
             IN  IF strtab_sec.typ # SHT_STRTAB
                 THEN [res |-> Result(LinkNotStringTable, sc, NoSymbol),
                       secidx |-> sc.secidx, symidx |-> sc.symidx]
                 ELSE [res |-> Result("Ok", sc,
                                  [name |-> read_str_from_offset(strtab_sec.content,
                                                                 ent.nameoff),
                                   value |-> ent.value, size |-> ent.size,
                                   info |-> ent.info, other |-> ent.other,
                                   shndx |-> ent.shndx]),
                       secidx |-> sc.secidx, symidx |-> sc.symidx]

\* resolve with the name looked up in the symbol table's own content.
resolve_own_content(sc, ent) ==
    LET sec == sections[sc.secidx + 1]
    IN  IF sec.link >= Len(sections)
        THEN [res |-> Result(InvalidLinkIndex, sc, NoSymbol),
              secidx |-> sc.secidx, symidx |-> sc.symidx]
        ELSE LET strtab_sec == sections[sec.link + 1]
             IN  IF strtab_sec.typ # SHT_STRTAB
                 THEN [res |-> Result(LinkNotStringTable, sc, NoSymbol),
                       secidx |-> sc.secidx, symidx |-> sc.symidx]
                 ELSE [res |-> Result("Ok", sc,
                                  [name |-> read_str_from_offset(sec.content,
                                                                 ent.nameoff),
                                   value |-> ent.value, size |-> ent.size,
                                   info |-> ent.info, other |-> ent.other,
                                   shndx |-> ent.shndx]),
                       secidx |-> sc.secidx, symidx |-> sc.symidx + 1]

\* Lines 129-156: link validation, name lookup and the symbol.
resolve(sc, ent) ==
    LET sec == sections[sc.secidx + 1]
    IN  IF sec.link >= Len(sections)
        THEN [res |-> Result(InvalidLinkIndex, sc, NoSymbol),
              secidx |-> sc.secidx, symidx |-> sc.symidx]
        ELSE LET strtab_sec == sections[sec.link + 1]
             IN  IF strtab_sec.typ # SHT_STRTAB
                 THEN [res |-> Result(LinkNotStringTable, sc, NoSymbol),
                       secidx |-> sc.secidx, symidx |-> sc.symidx]
                 ELSE [res |-> Result("Ok", sc,
                                  [name |-> read_str_from_offset(strtab_sec.content,
                                                                 ent.nameoff),
                                   value |-> ent.value, size |-> ent.size,
                                   info |-> ent.info, other |-> ent.other,
                                   shndx |-> ent.shndx]),
                       secidx |-> sc.secidx, symidx |-> sc.symidx + 1]

\* decode_at with the link range check of lines 129-135 made before the
\* entry is decoded.
decode_at_link_first(sc) ==
    IF sc.secidx >= Len(sections)
    THEN [res |-> Result("None", sc, NoSymbol),
          secidx |-> sc.secidx, symidx |-> sc.symidx]
    ELSE LET sec == sections[sc.secidx + 1]
             start == usize_mul(as_usize(sec.entsize), sc.symidx)
         IN  IF start.hi > 0 \/ start.lo > Len(sec.content)
             THEN [res |-> Result("Panic", sc, NoSymbol),
                   secidx |-> sc.secidx, symidx |-> sc.symidx]
             ELSE IF sec.link >= Len(sections)
             THEN [res |-> Result(InvalidLinkIndex, sc, NoSymbol),
                   secidx |-> sc.secidx, symidx |-> sc.symidx]
             ELSE LET data == SubSeq(sec.content, start.lo + 1, Len(sec.content))
                      ent == decode_entry(data)
                  IN  IF ~ent.ok
                      THEN [res |-> Result(MalformedEntry, sc, NoSymbol),
                            secidx |-> sc.secidx, symidx |-> sc.symidx]
                      ELSE resolve(sc, ent)

\* decode_at with the cursor moved past an entry that fails to decode.
decode_at_skipping(sc) ==
    IF sc.secidx >= Len(sections)
    THEN [res |-> Result("None", sc, NoSymbol),
          secidx |-> sc.secidx, symidx |-> sc.symidx]
    ELSE LET sec == sections[sc.secidx + 1]
             start == usize_mul(as_usize(sec.entsize), sc.symidx)
         IN  IF start.hi > 0 \/ start.lo > Len(sec.content)
             THEN [res |-> Result("Panic", sc, NoSymbol),
                   secidx |-> sc.secidx, symidx |-> sc.symidx]
             ELSE LET data == SubSeq(sec.content, start.lo + 1, Len(sec.content))
                      ent == decode_entry(data)
                  IN  IF ~ent.ok
                      THEN [res |-> Result(MalformedEntry, sc, NoSymbol),
                            secidx |-> sc.secidx, symidx |-> sc.symidx + 1]
                      ELSE resolve(sc, ent)

\* decode_at with the cursor set back to the start when the sections are
\* exhausted.
decode_at_rewinding(sc) ==
    IF sc.secidx >= Len(sections)
    THEN [res |-> Result("None", sc, NoSymbol), secidx |-> 0, symidx |-> 0]
    ELSE LET sec == sections[sc.secidx + 1]
             start == usize_mul(as_usize(sec.entsize), sc.symidx)
         IN  IF start.hi > 0 \/ start.lo > Len(sec.content)
             THEN [res |-> Result("Panic", sc, NoSymbol),
                   secidx |-> sc.secidx, symidx |-> sc.symidx]
             ELSE LET data == SubSeq(sec.content, start.lo + 1, Len(sec.content))
                      ent == decode_entry(data)
                  IN  IF ~ent.ok
                      THEN [res |-> Result(MalformedEntry, sc, NoSymbol),
                            secidx |-> sc.secidx, symidx |-> sc.symidx]
                      ELSE resolve(sc, ent)

\* Lines 90-127: the cursor is stored, then the entry is sliced and decoded.
decode_at(sc) ==
    IF sc.secidx >= Len(sections)
    THEN [res |-> Result("None", sc, NoSymbol),
          secidx |-> sc.secidx, symidx |-> sc.symidx]
    ELSE LET sec == sections[sc.secidx + 1]
             start == usize_mul(as_usize(sec.entsize), sc.symidx)
         IN  IF start.hi > 0 \/ start.lo > Len(sec.content)
             THEN [res |-> Result("Panic", sc, NoSymbol),
                   secidx |-> sc.secidx, symidx |-> sc.symidx]
             ELSE LET data == SubSeq(sec.content, start.lo + 1, Len(sec.content))
                  IN  Bind(decode_entry(data), LAMBDA ent :
                        IF ~ent.ok
                        THEN [res |-> Result(MalformedEntry, sc, NoSymbol),
                              secidx |-> sc.secidx, symidx |-> sc.symidx]
                        ELSE resolve(sc, ent))

\* next with the scan position stored before the entsize == 0 return.
next_committing(secidx, symidx) ==
    Bind(scan(secidx, symidx, << >>), LAMBDA sc :
        CASE sc.out = "entsize0" ->
                [res |-> Result(InvalidEntrySize, sc, NoSymbol),
                 secidx |-> sc.secidx, symidx |-> sc.symidx]
          [] sc.out = "panic" ->
                [res |-> Result("Panic", sc, NoSymbol),
                 secidx |-> secidx, symidx |-> symidx]
          [] OTHER -> decode_at(sc))

\* fn next(&mut self): the result and the cursor the call leaves, for a call
\* made with the cursor at (secidx, symidx).
next(secidx, symidx) ==
    Bind(scan(secidx, symidx, << >>), LAMBDA sc :
        CASE sc.out = "entsize0" ->
                [res |-> Result(InvalidEntrySize, sc, NoSymbol),
                 secidx |-> secidx, symidx |-> symidx]
          [] sc.out = "panic" ->
                [res |-> Result("Panic", sc, NoSymbol),
                 secidx |-> secidx, symidx |-> symidx]
          [] OTHER -> decode_at(sc))

(***************************************************************************)
(* The inputs: what the iterator is constructed over.                      *)
(***************************************************************************)
\* <<class, le, usize width>>: every class with every endianness, every
\* class with every width and every endianness with every width.  The
\* control flow of next() does not read le and the decoded values do not
\* depend on the width.
Targets ==
    { <<"Elf32", TRUE, 32>>, <<"Elf32", FALSE, 64>>,
      <<"Elf64", TRUE, 64>>, <<"Elf64", FALSE, 32>> }

\* Section content: len bytes that differ from their neighbours, so that a
\* field read at a wrong offset or in a wrong byte order shows.
Bytes(seed, len) == [k \in 1..len |-> (seed + 5 * (k - 1)) % 128]

LayoutOf(c) == IF c = "Elf32" THEN Elf32SymtabEntry ELSE Elf64SymtabEntry

\* (entsize.hi, entsize.lo, content length) of the symbol-table sections
\* tried, for a record size of S bytes.
SymtabSizes(S) ==
    { <<0, 0, 0>>, <<0, 0, S>>,                 \* entsize 0
      <<0, S - 1, S - 1>>, <<0, S - 1, 2 * S - 2>>,  \* entsize below SIZE
      <<0, S, 0>>, <<0, S, 2 * S>>,             \* entsize = SIZE
      <<0, S + 1, 2 * S + 3>>,                  \* entsize above SIZE
      <<1, 0, 0>>, <<1, S, 2 * S>> }            \* entsize 2^32 and above

OtherTypes == {1}

\* The symbol-table sections of one list all carry the link lnk.
SymtabShapes(c, lnk) ==
    { [typ |-> SHT_SYMTAB, link |-> lnk, hi |-> z[1], lo |-> z[2], len |-> z[3]] :
        z \in SymtabSizes(SIZE(LayoutOf(c))) }

\* A string table, and a section of another type whose entsize is 0 and
\* whose link is out of range.
OtherShapes(c, n) ==
    { [typ |-> SHT_STRTAB, link |-> 0, hi |-> 0, lo |-> 0, len |-> 6] }
    \cup { [typ |-> t, link |-> n + 1, hi |-> 0, lo |-> 0,
            len |-> SIZE(LayoutOf(c))] : t \in OtherTypes }

\* The links tried in a list of n sections: its first section, its last
\* section, and the first index out of range.
LinkChoices(n) == {l \in {0, n - 1, n} : l >= 0}

SectionAt(j, sh) ==
    [typ |-> sh.typ, link |-> sh.link, entsize |-> U64(sh.hi, sh.lo),
     content |-> Bytes(17 * j, sh.len)]

NotRun == [run |-> FALSE]

\* The iterator SymtabIterator::new returns, before its first call.
Fresh == [curr_secidx |-> 0, curr_symidx |-> 0, last |-> NoCall, yielded |-> << >>]

\* SymtabIterator::new(class, endian, sections)
Init ==
    /\ \E t \in Targets : class = t[1] /\ le = t[2] /\ w = t[3]
    /\ \E n \in 0..MaxSections :
         \E lnk \in LinkChoices(n) :
         \E f \in [1..n -> SymtabShapes(class, lnk) \cup OtherShapes(class, n)] :
            /\ Cardinality({j \in 1..n : f[j].typ = SHT_SYMTAB}) <= MaxSymtabs
            /\ sections = [j \in 1..n |-> SectionAt(j, f[j])]
    /\ curr_secidx = 0
    /\ curr_symidx = 0
    /\ last = NoCall
    /\ yielded = << >>
    /\ it2 = Fresh
    /\ udata = << >>
    /\ ubody = << >>
    /\ ures = NotRun
    /\ ufields = << >>

\* One call of next() on the iterator.  A call that panicked is the last;
\* a call that returns what the call before it returned and leaves the
\* cursor where it was does not change the state.
CallNext ==
    /\ last.kind # "Panic"
    /\ \E r \in {next(curr_secidx, curr_symidx)} :
           /\ last' = r.res
           /\ yielded' = IF r.res.kind = "Ok" THEN Append(yielded, r.res) ELSE yielded
           /\ curr_secidx' = r.secidx
           /\ curr_symidx' = r.symidx
    /\ UNCHANGED <<class, le, w, sections, udata, ubody, ures, ufields, it2>>

Next == CallNext

Spec == Init /\ [][Next]_vars

(***************************************************************************)
(* Two iterators constructed over one section list, with the same class    *)
(* and endianness, their calls interleaved in any order.                   *)
(***************************************************************************)
InitShared ==
    /\ \E t \in Targets : class = t[1] /\ le = t[2] /\ w = t[3]
    /\ \E n \in 0..MaxShared :
         \E lnk \in LinkChoices(n) :
         \E f \in [1..n -> SymtabShapes(class, lnk) \cup OtherShapes(class, n)] :
            /\ Cardinality({j \in 1..n : f[j].typ = SHT_SYMTAB}) <= MaxSymtabs
            /\ sections = [j \in 1..n |-> SectionAt(j, f[j])]
    /\ curr_secidx = 0
    /\ curr_symidx = 0
    /\ last = NoCall
    /\ yielded = << >>
    /\ it2 = Fresh
    /\ udata = << >>
    /\ ubody = << >>
    /\ ures = NotRun
    /\ ufields = << >>

\* CallNext2 with the cursor of the first iterator for its own.
CallNext2_shared ==
    /\ it2.last.kind # "Panic"
    /\ \E r \in {next(curr_secidx, curr_symidx)} :
           it2' = [curr_secidx |-> r.secidx, curr_symidx |-> r.symidx,
                   last |-> r.res,
                   yielded |-> IF r.res.kind = "Ok"
                               THEN Append(it2.yielded, r.res) ELSE it2.yielded]
    /\ UNCHANGED <<class, le, w, sections, curr_secidx, curr_symidx, last, yielded,
                   udata, ubody, ures, ufields>>

\* One call of next() on the second iterator.
CallNext2 ==
    /\ it2.last.kind # "Panic"
    /\ \E r \in {next(it2.curr_secidx, it2.curr_symidx)} :
           it2' = [curr_secidx |-> r.secidx, curr_symidx |-> r.symidx,
                   last |-> r.res,
                   yielded |-> IF r.res.kind = "Ok"
                               THEN Append(it2.yielded, r.res) ELSE it2.yielded]
    /\ UNCHANGED <<class, le, w, sections, curr_secidx, curr_symidx, last, yielded,
                   udata, ubody, ures, ufields>>

NextShared == CallNext \/ CallNext2

SpecShared == InitShared /\ [][NextShared]_vars

(***************************************************************************)
(* The decoder alone: one unpack of a byte string under a declared layout. *)
(***************************************************************************)
Layouts == {Elf32SymtabEntry, Elf64SymtabEntry, Foo}

InitUnpack ==
    /\ udata \in { Bytes(seed, n) : seed \in {3, 64}, n \in 0..MaxData }
    /\ ubody \in Layouts
    /\ ures = NotRun
    /\ ufields = << >>
    /\ class = "Elf32"
    /\ le = FALSE
    /\ w = 64
    /\ sections = << >>
    /\ curr_secidx = 0
    /\ curr_symidx = 0
    /\ last = NoCall
    /\ yielded = << >>
    /\ it2 = Fresh

\* Self::unpack_le(&data)
UnpackLe ==
    /\ ures = NotRun
    /\ ures' = [run |-> TRUE, lebe |-> "le", out |-> unpack_le(udata, ubody)]
    /\ UNCHANGED <<udata, ubody, ufields, iterVars>>

\* Self::unpack_be(&data)
UnpackBe ==
    /\ ures = NotRun
    /\ ures' = [run |-> TRUE, lebe |-> "be", out |-> unpack_be(udata, ubody)]
    /\ UNCHANGED <<udata, ubody, ufields, iterVars>>

NextUnpack == UnpackLe \/ UnpackBe

SpecUnpack == InitUnpack /\ [][NextUnpack]_vars

(***************************************************************************)
(* The decoder after a reference encoder: a field assignment is laid out   *)
(* in declared order and the bytes are unpacked.  The first and the last   *)
(* byte of a 32-bit half stay below 128, so that the half fits the model's *)
(* integers in either byte order.                                          *)
(***************************************************************************)
U8Values == {0, 18, 255}
U16Values == {0, 258, 65535}
U32Values == {0, 16909060, 2147483519}
U64Values == {U64(0, 0), U64(16909060, 84281096), U64(2147483519, 2130706301)}

\* The n bytes of the unsigned integer v in the given byte order.
RefEncode(v, n, little) ==
    IF n = 8
    THEN IF little
         THEN [k \in 1..4 |-> (v.lo \div 256 ^ (k - 1)) % 256]
              \o [k \in 1..4 |-> (v.hi \div 256 ^ (k - 1)) % 256]
         ELSE [k \in 1..4 |-> (v.hi \div 256 ^ (4 - k)) % 256]
              \o [k \in 1..4 |-> (v.lo \div 256 ^ (4 - k)) % 256]
    ELSE [k \in 1..n |-> (v \div 256 ^ (IF little THEN k - 1 ELSE n - k)) % 256]

\* The fields of body from field k on, laid out in declared order.
RECURSIVE RefLayOut(_, _, _, _)
RefLayOut(fields, body, little, k) ==
    IF k > Len(body) THEN << >>
    ELSE RefEncode(fields[body[k][1]], body[k][2], little)
         \o RefLayOut(fields, body, little, k + 1)

InitRoundTrip ==
    /\ \E nm \in U32Values, inf \in U8Values, oth \in U8Values, shn \in U16Values :
         \/ /\ ubody = Elf32SymtabEntry
            /\ \E val \in U32Values, siz \in U32Values :
                  ufields = [name |-> nm, value |-> val, size |-> siz,
                             info |-> inf, other |-> oth, shndx |-> shn]
         \/ /\ ubody = Elf64SymtabEntry
            /\ \E val \in U64Values, siz \in U64Values :
                  ufields = [name |-> nm, value |-> val, size |-> siz,
                             info |-> inf, other |-> oth, shndx |-> shn]
    /\ udata = << >>
    /\ ures = NotRun
    /\ class = "Elf32"
    /\ le = FALSE
    /\ w = 64
    /\ sections = << >>
    /\ curr_secidx = 0
    /\ curr_symidx = 0
    /\ last = NoCall
    /\ yielded = << >>
    /\ it2 = Fresh

\* Self::unpack_le(&data) on the little-endian layout of ufields.
EncodeUnpackLe ==
    /\ ures = NotRun
    /\ \E data \in {RefLayOut(ufields, ubody, TRUE, 1)} :
          /\ udata' = data
          /\ ures' = [run |-> TRUE, lebe |-> "le", out |-> unpack_le(data, ubody)]
    /\ UNCHANGED <<ubody, ufields, iterVars>>

\* Self::unpack_be(&data) on the big-endian layout of ufields.
EncodeUnpackBe ==
    /\ ures = NotRun
    /\ \E data \in {RefLayOut(ufields, ubody, FALSE, 1)} :
          /\ udata' = data
          /\ ures' = [run |-> TRUE, lebe |-> "be", out |-> unpack_be(data, ubody)]
    /\ UNCHANGED <<ubody, ufields, iterVars>>

NextRoundTrip == EncodeUnpackLe \/ EncodeUnpackBe

SpecRoundTrip == InitRoundTrip /\ [][NextRoundTrip]_vars

(***************************************************************************)
(* Reference notions the claims are stated with.  They are written from    *)
(* the ELF layout tables and the arithmetic of the claims, not from the    *)
(* operators above.                                                        *)
(***************************************************************************)
NSec == Len(sections)
Sec(j) == sections[j + 1]
SymtabIndices == {j \in 0..(NSec - 1) : Sec(j).typ = 2}

\* The record size of the active class.
RefSize == IF class = "Elf32" THEN 16 ELSE 24

\* floor(content.length / entry_size) for a nonzero entry_size.
RefCount(sec) ==
    IF sec.entsize.hi > 0 THEN 0 ELSE Len(sec.content) \div sec.entsize.lo

\* The unsigned integer of width n <= 4 at offset off of b.
RECURSIVE RefSum(_, _, _, _, _)
RefSum(b, off, n, little, k) ==
    IF k = n THEN 0
    ELSE b[off + 1 + k] * 256 ^ (IF little THEN k ELSE n - 1 - k)
         + RefSum(b, off, n, little, k + 1)

RefUInt(b, off, n, little) ==
    IF n = 8
    THEN [hi |-> RefSum(b, IF little THEN off + 4 ELSE off, 4, little, 0),
          lo |-> RefSum(b, IF little THEN off ELSE off + 4, 4, little, 0)]
    ELSE RefSum(b, off, n, little, 0)

\* The entry at offset off of b, read field by field at the offsets of the
\* ELF symbol-table layouts; a 32-bit value or size is zero-extended.
RefEntry(b, off) ==
    IF class = "Elf32"
    THEN [name |-> RefUInt(b, off, 4, le),
          value |-> [hi |-> 0, lo |-> RefUInt(b, off + 4, 4, le)],
          size |-> [hi |-> 0, lo |-> RefUInt(b, off + 8, 4, le)],
          info |-> RefUInt(b, off + 12, 1, le),
          other |-> RefUInt(b, off + 13, 1, le),
          shndx |-> RefUInt(b, off + 14, 2, le)]
    ELSE [name |-> RefUInt(b, off, 4, le),
          info |-> RefUInt(b, off + 4, 1, le),
          other |-> RefUInt(b, off + 5, 1, le),
          shndx |-> RefUInt(b, off + 6, 2, le),
          value |-> RefUInt(b, off + 8, 8, le),
          size |-> RefUInt(b, off + 16, 8, le)]

\* The symbol expected for entry i of the symbol-table section sec.
RefSymbol(sec, i) ==
    LET e == RefEntry(sec.content, i * sec.entsize.lo)
    IN  [name |-> read_str_from_offset(Sec(sec.link).content, e.name),
         value |-> e.value, size |-> e.size,
         info |-> e.info, other |-> e.other, shndx |-> e.shndx]

\* entry_size >= the layout's SIZE and the link names a string table.
WellFormed(sec) ==
    /\ sec.entsize.hi > 0 \/ sec.entsize.lo >= RefSize
    /\ sec.link < NSec
    /\ Sec(sec.link).typ = 3

\* content.length is an exact multiple of the (nonzero) entry_size.
ExactMultiple(sec) ==
    IF sec.entsize.hi > 0
    THEN Len(sec.content) = 0
    ELSE Len(sec.content) % sec.entsize.lo = 0

\* No symbol-table entry_size is changed by the conversion to usize.
NoTruncation == \A j \in SymtabIndices : Sec(j).entsize.hi = 0 \/ w = 64

\* The call made in the current state.
Upcoming == next(curr_secidx, curr_symidx)

Where(r) == <<r.sec, r.idx>>

\* What the caller gets, with the entry it is about.
Returned(r) == <<r.kind, r.sec, r.idx, r.sym>>

(***************************************************************************)
(* C1                                                                      *)
(***************************************************************************)
C1_Pre ==
    /\ Cardinality(SymtabIndices) = 1
    /\ \A j \in SymtabIndices : WellFormed(Sec(j)) /\ ExactMultiple(Sec(j))

C1_Body ==
    LET s == CHOOSE j \in SymtabIndices : TRUE
        n == RefCount(Sec(s))
    IN  /\ last.kind \in {"NoCall", "Ok", "None"}
        /\ Len(yielded) <= n
        /\ \A k \in 1..Len(yielded) : Where(yielded[k]) = <<s, k - 1>>
        /\ last.kind = "Ok" => last = yielded[Len(yielded)]
        /\ last.kind = "None" => Len(yielded) = n
        /\ last.kind = "NoCall" => yielded = << >>

\* C1: over one well-formed symbol-table section whose content length is an
\* exact multiple of its entry_size, the calls return exactly
\* content.length / entry_size Ok symbols, the k-th from entry k - 1, and then
\* None.  Every call ends in a state this is checked in: each result is an
\* Ok symbol for the next entry or, once all n are out, None.
C1_AsClaimed == C1_Pre => C1_Body

\* The same when no entry_size reaches 2^w.
C1_NoTruncation == (C1_Pre /\ NoTruncation) => C1_Body

(***************************************************************************)
(* C2                                                                      *)
(***************************************************************************)
C2_Body(y) ==
    LET sec == Sec(y.sec)
    IN  /\ sec.entsize.hi = 0 \/ y.idx = 0
        /\ y.sym = RefSymbol(sec, y.idx)

\* C2: every Ok symbol yielded for entry i has the fields read at the
\* layout's offsets from content[i * entry_size ..], in the active byte order.
\* Every Ok symbol is the latest result in the state its call ends in.
C2_AsClaimed == last.kind = "Ok" => C2_Body(last)

\* The same when no entry_size reaches 2^w.
C2_NoTruncation == (NoTruncation /\ last.kind = "Ok") => C2_Body(last)

(***************************************************************************)
(* C3                                                                      *)
(***************************************************************************)
TooSmall(sec) ==
    /\ sec.entsize.hi = 0
    /\ sec.entsize.lo > 0
    /\ sec.entsize.lo < RefSize

\* C3: no call that reaches an entry of a symbol-table section whose
\* entry_size is nonzero and below the record size returns an Ok symbol.
C3_AsClaimed == last.kind = "Ok" => ~TooSmall(Sec(last.sec))

(***************************************************************************)
(* C4                                                                      *)
(***************************************************************************)
EntryErrors == {MalformedEntry, InvalidLinkIndex, LinkNotStringTable}

\* C4: after an entry error for entry i the cursor is past that entry, and
\* the following call does not stop at entry i again.
C4_AsClaimed ==
    last.kind \in EntryErrors
        => /\ <<curr_secidx, curr_symidx>> = <<last.sec, last.idx + 1>>
           /\ Where(Upcoming.res) # Where(last)

\* C4 as amended: after an entry error for entry i the cursor stays at
\* entry i, and the following call stops at entry i again, returns the same
\* error and leaves the cursor there.
C4_Amended ==
    last.kind \in EntryErrors
        => /\ <<curr_secidx, curr_symidx>> = Where(last)
           /\ \A u \in {Upcoming} :
                  /\ Returned(u.res) = Returned(last)
                  /\ <<u.secidx, u.symidx>> = <<curr_secidx, curr_symidx>>

C4_Witness ==
    /\ last.kind = MalformedEntry
    /\ last.idx = 1
    /\ Len(yielded) = 1

(***************************************************************************)
(* C5                                                                      *)
(***************************************************************************)
ZeroEntsizeSymtab(j) ==
    /\ Sec(j).typ = 2
    /\ Sec(j).entsize = [hi |-> 0, lo |-> 0]

\* C5: a call whose scan reaches a symbol-table section with entry_size 0
\* returns InvalidEntrySize, whatever the section's content and link; the
\* call does not divide by the entry_size (it does not panic) and decodes
\* nothing (it returns no other result).
C5_ZeroEntsize ==
    (\E k \in 1..Len(last.scanned) : ZeroEntsizeSymtab(last.scanned[k]))
        => /\ last.kind = InvalidEntrySize
           /\ ZeroEntsizeSymtab(last.sec)
           /\ last.scanned[Len(last.scanned)] = last.sec

C5_Witness ==
    /\ last.kind = InvalidEntrySize
    /\ Len(last.scanned) > 1
    /\ Sec(last.sec).content = << >>
    /\ Sec(last.sec).link >= NSec

(***************************************************************************)
(* C6                                                                      *)
(***************************************************************************)
\* The bytes of entry i of sec reach the record size.
Decodable(sec, i) ==
    /\ sec.entsize.hi = 0 \/ i = 0
    /\ Len(sec.content) - i * sec.entsize.lo >= RefSize

\* C6: for a call that stopped at a decodable entry, a link >= the number of
\* sections gives InvalidLinkIndex and a link to a section that is no string
\* table gives LinkNotStringTable; neither is returned for an entry that
\* does not decode.
C6_LinkErrors ==
    last.kind \in {"Ok"} \cup EntryErrors
        => LET sec == Sec(last.sec)
               dec == Decodable(sec, last.idx)
           IN  /\ (dec /\ sec.link >= NSec) => last.kind = InvalidLinkIndex
               /\ (dec /\ sec.link < NSec /\ Sec(sec.link).typ # 3)
                      => last.kind = LinkNotStringTable
               /\ last.kind \in {InvalidLinkIndex, LinkNotStringTable} => dec

C6_Witness ==
    /\ last.kind = InvalidLinkIndex
    /\ Decodable(Sec(last.sec), last.idx)
    /\ Sec(last.sec).link >= NSec

(***************************************************************************)
(* C7                                                                      *)
(***************************************************************************)
\* The entries <<j, i>> of the symbol-table sections from section j on, in
\* section-list order and, within a section, in entry order.
RECURSIVE RefEntries(_)
RefEntries(j) ==
    IF j >= NSec THEN << >>
    ELSE (IF Sec(j).typ = 2
          THEN [i \in 1..RefCount(Sec(j)) |-> <<j, i - 1>>]
          ELSE << >>) \o RefEntries(j + 1)

C7_Pre == \A j \in SymtabIndices : WellFormed(Sec(j))

C7_Body ==
    LET all == RefEntries(0)
    IN  /\ last.kind \in {"NoCall", "Ok", "None"}
        /\ Len(yielded) <= Len(all)
        /\ \A k \in 1..Len(yielded) : Where(yielded[k]) = all[k]
        /\ last.kind = "Ok" => last = yielded[Len(yielded)]
        /\ last.kind = "None" => Len(yielded) = Len(all)

\* C7: when every symbol-table section is well formed, the symbols yielded
\* are the entries 0 .. floor(content.length / entry_size) - 1 of each type-2
\* section, section after section in list order; empty symbol tables and
\* sections of other types contribute no symbol and no error.
C7_AsClaimed == C7_Pre => C7_Body

\* The same when no entry_size reaches 2^w.
C7_NoTruncation == (C7_Pre /\ NoTruncation) => C7_Body

(***************************************************************************)
(* C8                                                                      *)
(***************************************************************************)
\* C8: None is returned only with curr_secidx = sections.len(), and the call
\* after a None returns None and leaves the cursor where it is.
C8_NoneTerminal ==
    last.kind = "None"
        => /\ curr_secidx = NSec
           /\ \A u \in {Upcoming} :
                  /\ u.res.kind = "None"
                  /\ <<u.secidx, u.symidx>> = <<curr_secidx, curr_symidx>>

C8_Witness ==
    /\ last.kind = "None"
    /\ Len(yielded) > 0

(***************************************************************************)
(* C9                                                                      *)
(***************************************************************************)
\* C9: no call panics: the divisor content.len() is divided by is never
\* zero and the slice start is within the content.
C9_AsClaimed == last.kind # "Panic"

(***************************************************************************)
(* C10                                                                     *)
(***************************************************************************)
\* The size the layouts are declared to have.
DeclaredSize(body) ==
    IF body = Elf32SymtabEntry THEN 16
    ELSE IF body = Elf64SymtabEntry THEN 24
    ELSE 7

\* data with everything from offset n on replaced by other bytes.
OtherTail(data, n) ==
    SubSeq(data, 1, n) \o [k \in 1..3 |-> (data[n] + 11 * k) % 128]

\* The decoder the run used, on other input.
Rerun(data) ==
    IF ures.lebe = "le" THEN unpack_le(data, ubody) ELSE unpack_be(data, ubody)

\* C10: the decoder fails exactly when the input is shorter than SIZE, and
\* then returns no record; otherwise it returns the remainder input[SIZE..]
\* and a record that the bytes from offset SIZE on do not influence.
C10_Unpack ==
    ures.run
        => LET n == DeclaredSize(ubody)
               r == ures.out
           IN  /\ r.ok <=> Len(udata) >= n
               /\ ~r.ok => DOMAIN r = {"ok"}
               /\ r.ok => /\ r.rest = SubSeq(udata, n + 1, Len(udata))
                          /\ Len(r.rest) = Len(udata) - n
                          /\ r.rec = Rerun(SubSeq(udata, 1, n)).rec
                          /\ r.rec = Rerun(OtherTail(udata, n)).rec

C10_Witness ==
    /\ ures.run
    /\ ures.out.ok
    /\ ures.out.rest = << >>

(***************************************************************************)
(* C11                                                                     *)
(***************************************************************************)
\* The sum of the widths of the fields declared before field k.
RECURSIVE RefStart(_, _)
RefStart(body, k) ==
    IF k = 1 THEN 0 ELSE RefStart(body, k - 1) + body[k - 1][2]

\* The byte offsets field k is claimed to occupy.
RefRange(body, k) == RefStart(body, k) .. (RefStart(body, k) + body[k][2] - 1)

\* C11: SIZE is the sum of the declared widths (16, 24 and 7 for the three
\* layouts), field k of a decoded record is the integer read at the sum of
\* the widths of the fields before it, and the field ranges are pairwise
\* disjoint and cover exactly 0 .. SIZE - 1.
C11_Layout ==
    ures.run
        => LET n == Len(ubody)
           IN  /\ SIZE(ubody) = DeclaredSize(ubody)
               /\ SIZE(ubody) = RefStart(ubody, n) + ubody[n][2]
               /\ \A j, k \in 1..n :
                      j # k => RefRange(ubody, j) \cap RefRange(ubody, k) = {}
               /\ UNION {RefRange(ubody, k) : k \in 1..n}
                      = 0 .. (DeclaredSize(ubody) - 1)
               /\ ures.out.ok
                      => \A k \in 1..n :
                            ures.out.rec[ubody[k][1]]
                                = RefUInt(udata, RefStart(ubody, k), ubody[k][2],
                                          ures.lebe = "le")

C11_Witness ==
    /\ ures.run
    /\ ures.out.ok
    /\ ubody = Foo
    /\ ures.lebe = "be"
    /\ Len(udata) > 7

(***************************************************************************)
(* C12                                                                     *)
(***************************************************************************)
\* The content offset the call that returned y decoded its entry at.
DecodedAt(y) == as_usize(Sec(y.sec).entsize).lo * y.idx

\* C12: value and size of every yielded symbol are 64-bit: for Elf32 the
\* 32-bit fields of the decoded entry with a zero upper half, for Elf64 the
\* 64-bit fields of the decoded entry; info, other and shndx are the entry's
\* fields in both classes.
C12_Widened ==
    last.kind = "Ok"
        => LET b == Sec(last.sec).content
               off == DecodedAt(last)
               sym == last.sym
           IN  /\ DOMAIN sym.value = {"hi", "lo"}
               /\ DOMAIN sym.size = {"hi", "lo"}
               /\ class = "Elf32"
                    => /\ sym.value = [hi |-> 0, lo |-> RefUInt(b, off + 4, 4, le)]
                       /\ sym.size = [hi |-> 0, lo |-> RefUInt(b, off + 8, 4, le)]
                       /\ sym.info = RefUInt(b, off + 12, 1, le)
                       /\ sym.other = RefUInt(b, off + 13, 1, le)
                       /\ sym.shndx = RefUInt(b, off + 14, 2, le)
               /\ class = "Elf64"
                    => /\ sym.value = RefUInt(b, off + 8, 8, le)
                       /\ sym.size = RefUInt(b, off + 16, 8, le)
                       /\ sym.info = RefUInt(b, off + 4, 1, le)
                       /\ sym.other = RefUInt(b, off + 5, 1, le)
                       /\ sym.shndx = RefUInt(b, off + 6, 2, le)

C12_Witness ==
    /\ last.kind = "Ok"
    /\ class = "Elf32"
    /\ last.idx = 1
    /\ last.sym.value.lo > 0
    /\ last.sym.size.lo > 0
    /\ last.sym.value # last.sym.size

(***************************************************************************)
(* C13                                                                     *)
(***************************************************************************)
\* C13: an Ok symbol decoded from symbol-table section s has s.link below
\* the number of sections, the section at s.link is a string table, and the
\* name is the string lookup in that section's content, and in no other
\* content, at the name offset of the decoded entry.
C13_Name ==
    last.kind = "Ok"
        => LET s == Sec(last.sec)
           IN  /\ s.typ = 2
               /\ s.link < NSec
               /\ Sec(s.link).typ = 3
               /\ last.sym.name
                    = read_str_from_offset(
                          Sec(s.link).content,
                          RefUInt(s.content, DecodedAt(last), 4, le))
               /\ \A j \in 0..(NSec - 1) :
                      Sec(j).content # Sec(s.link).content
                          => last.sym.name.buf # Sec(j).content

C13_Witness ==
    /\ last.kind = "Ok"
    /\ Sec(last.sec).link > last.sec
    /\ last.sym.name.off > 0
    /\ last.idx = 1

(***************************************************************************)
(* C14                                                                     *)
(***************************************************************************)
\* a <= b in the lexicographic order of pairs.
LexLeq(a, b) == a[1] < b[1] \/ (a[1] = b[1] /\ a[2] <= b[2])

\* No entry is among the Ok results twice.
YieldedOnce ==
    \A j, k \in 1..Len(yielded) : j # k => Where(yielded[j]) # Where(yielded[k])

\* C14: no call moves the cursor (curr_secidx, curr_symidx) backwards in the
\* lexicographic order, curr_secidx never exceeds the number of sections, and
\* no entry (section index, entry index) is yielded as an Ok symbol twice.
C14_Forward ==
    /\ [](curr_secidx <= NSec /\ YieldedOnce)
    /\ [][LexLeq(<<curr_secidx, curr_symidx>>, <<curr_secidx', curr_symidx'>>)]_vars

C14_Witness ==
    /\ Len(yielded) >= 3
    /\ yielded[1].sec < yielded[Len(yielded)].sec
    /\ curr_symidx > 0
    /\ curr_secidx > 0

(***************************************************************************)
(* C15                                                                     *)
(***************************************************************************)
\* C15: for both symbol-entry layouts and both byte orders, decoding the SIZE
\* bytes a field assignment is laid out in returns the assignment itself and
\* an empty remainder.
C15_RoundTrip ==
    ures.run
        => /\ Len(udata) = DeclaredSize(ubody)
           /\ ures.out.ok
           /\ ures.out.rec = ufields
           /\ ures.out.rest = << >>

C15_Witness ==
    /\ ures.run
    /\ ures.out.ok
    /\ ures.lebe = "be"
    /\ ubody = Elf64SymtabEntry
    /\ ufields["value"] = U64(16909060, 84281096)
    /\ ufields["shndx"] = 258
    /\ ufields["name"] = 2147483519

(***************************************************************************)
(* C16                                                                     *)
(***************************************************************************)
\* The first iterator, as a record like it2.
It1 ==
    [curr_secidx |-> curr_secidx, curr_symidx |-> curr_symidx,
     last |-> last, yielded |-> yielded]

\* The iterator it after one more call made with no other iterator around.
AloneCall(it) ==
    IF it.last.kind = "Panic" THEN it
    ELSE LET r == next(it.curr_secidx, it.curr_symidx)
         IN  [curr_secidx |-> r.secidx, curr_symidx |-> r.symidx,
              last |-> r.res,
              yielded |-> IF r.res.kind = "Ok"
                          THEN Append(it.yielded, r.res) ELSE it.yielded]

\* Every state an iterator run alone from it goes through.
RECURSIVE AloneRun(_)
AloneRun(it) ==
    Bind(AloneCall(it), LAMBDA nx :
        IF nx = it THEN {it} ELSE {it} \cup AloneRun(nx))

\* C16: with the calls of two iterators over one section list interleaved,
\* every call returns what the same call returns when its iterator runs
\* alone, and writes nothing but its own iterator's cursor: not the section
\* list, the class, the endianness or the other iterator.
C16_Independent ==
    /\ [](\A run \in {AloneRun(Fresh)} : It1 \in run /\ it2 \in run)
    /\ [][ /\ sections' = sections /\ class' = class /\ le' = le
           /\ It1' # It1 => (It1' = AloneCall(It1) /\ it2' = it2)
           /\ it2' # it2 => (it2' = AloneCall(it2) /\ It1' = It1) ]_vars

C16_Witness ==
    /\ last.kind = "None"
    /\ Len(yielded) = 2
    /\ it2.last.kind = "Ok"
    /\ Len(it2.yielded) = 1

(***************************************************************************)
(* C17                                                                     *)
(***************************************************************************)
\* Fewer bytes than the record size are left from the start of the entry
\* the call that returned y stopped at.
Undecodable(y) == Len(Sec(y.sec).content) - DecodedAt(y) < RefSize

\* The result the claimed order of the checks gives for the entry y is about.
InOrder(y) ==
    LET s == Sec(y.sec)
    IN  IF s.entsize = [hi |-> 0, lo |-> 0] THEN InvalidEntrySize
        ELSE IF Undecodable(y) THEN MalformedEntry
        ELSE IF s.link >= NSec THEN InvalidLinkIndex
        ELSE IF Sec(s.link).typ # 3 THEN LinkNotStringTable
        ELSE "Ok"

\* C17: the result of a call that stops at a symbol-table section is decided
\* by the first check that fails, in the order entry_size == 0, entry
\* decode, link < section count, linked section's type: an undecodable
\* entry with a bad link gives MalformedEntry, and an out-of-range link gives
\* InvalidLinkIndex, never LinkNotStringTable.
C17_Order ==
    last.kind \in Errors \cup {"Ok"}
        => /\ last.kind = InOrder(last)
           /\ Sec(last.sec).link >= NSec => last.kind # LinkNotStringTable

C17_Witness ==
    /\ last.kind = MalformedEntry
    /\ Undecodable(last)
    /\ Sec(last.sec).link >= NSec

(***************************************************************************)
(* C18                                                                     *)
(***************************************************************************)
\* The symbol-table sections the claim is about.
Ragged == {j \in SymtabIndices : WellFormed(Sec(j)) /\ ~ExactMultiple(Sec(j))}

C18_Body(s) ==
    LET n == RefCount(Sec(s))
        ys == {k \in 1..Len(yielded) : yielded[k].sec = s}
    IN  /\ Cardinality(ys) <= n
        /\ \A k \in ys : yielded[k].idx < n
        /\ (last.kind \notin {"NoCall", "None"} /\ last.sec = s) => last.kind = "Ok"
        /\ curr_secidx > s => Cardinality(ys) = n

\* C18: a symbol-table section with entry_size >= SIZE, a valid string-table
\* link and a content length that is no multiple of entry_size yields the
\* entries 0 .. floor(content.length / entry_size) - 1 and nothing else: no
\* call that stops in it returns an error, and when the iterator has moved
\* on to a later section exactly that many symbols have come from it.
C18_AsClaimed == \A s \in Ragged : C18_Body(s)

\* The same when no entry_size reaches 2^w.
C18_NoTruncation == NoTruncation => \A s \in Ragged : C18_Body(s)

(***************************************************************************)
(* C19                                                                     *)
(***************************************************************************)
\* C19: a call that returns InvalidEntrySize leaves the stored cursor
\* (curr_secidx, curr_symidx) as it was before the call, whatever section
\* its scan had reached.
C19_Uncommitted ==
    \A u \in {Upcoming} :
        u.res.kind = InvalidEntrySize
            => <<u.secidx, u.symidx>> = <<curr_secidx, curr_symidx>>

C19_Witness ==
    /\ last.kind = InvalidEntrySize
    /\ Len(yielded) = 2
    /\ last.sec > curr_secidx
    /\ curr_symidx = 2
    /\ Upcoming.res.kind = InvalidEntrySize

(***************************************************************************)
(* C20                                                                     *)
(***************************************************************************)
\* C20: after a call has returned an error, the following call returns the
\* same kind of error for the same section and entry and looks at no later
\* section; so every later call does, no further Ok symbol is yielded and
\* None is never returned.
C20_Sticky ==
    last.kind \in Errors
        => /\ \A u \in {Upcoming} :
                  /\ u.res.kind = last.kind
                  /\ Where(u.res) = Where(last)
                  /\ \A k \in 1..Len(u.res.scanned) : u.res.scanned[k] <= last.sec
           /\ \A k \in 1..Len(yielded) : Where(yielded[k]) # Where(last)

C20_Witness ==
    /\ last.kind = LinkNotStringTable
    /\ last.sec > 0
    /\ last.scanned = <<last.sec>>
    /\ yielded = << >>
    /\ NSec > last.sec + 1

(***************************************************************************)
(* C21                                                                     *)
(***************************************************************************)
\* A symbol-table section with a nonzero entry_size and no whole entry:
\* content.length < entry_size.
Hollow(j) ==
    /\ Sec(j).typ = 2
    /\ Sec(j).entsize # [hi |-> 0, lo |-> 0]
    /\ Sec(j).entsize.hi > 0 \/ Len(Sec(j).content) < Sec(j).entsize.lo

\* Every symbol-table section is hollow or well formed.
C21_Pre == \A j \in SymtabIndices : Hollow(j) \/ WellFormed(Sec(j))

C21_Body ==
    /\ last.kind \notin {"NoCall", "None"} => ~Hollow(last.sec)
    /\ C21_Pre => last.kind \in {"NoCall", "Ok", "None"}

\* C21: no call stops at a symbol-table section with a nonzero entry_size and
\* no whole entry, whatever its link: no result, and so no link error, comes
\* from it; and a section list whose other symbol-table sections are well
\* formed is iterated with every result an Ok symbol or None.
C21_AsClaimed == C21_Body

\* The same when no entry_size reaches 2^w.
C21_NoTruncation == NoTruncation => C21_Body

====
